---- MODULE Spec2Model ----
(***************************************************************************)
(* Model of src/tictactoe.py: the State class of the noughts-and-crosses   *)
(* game (moves, turn, winner, score).  Spec drives it by arbitrary         *)
(* sequences of its public operations, LoopSpec by the session loop        *)
(* NoughtsAndCrosses.play.                                                 *)
(***************************************************************************)
EXTENDS Integers, Sequences, FiniteSets, TLC

\* ---- bounds of the exploration ------------------------------------------
\* Callers fill the free cells in the order of one of the first NumScripts
\* games of Scripts (they may switch game while the cells played so far
\* are a common prefix).
NumScripts == 3
\* set_move is called with positions in (1 - PosSlack) .. (9 + PosSlack).
PosSlack == 1
\* finished() is not called once it would push a score above MaxScore; the
\* session loop starts no further round once a score has reached MaxScore.
MaxScore == 2

\* ---- values --------------------------------------------------------------
\* Python's None for State.winner: winner is <<>> or <<name>>.
None == <<>>

\* Names the two _get_input calls of set_plays can return: a stripped line,
\* possibly the empty string.
NamePairs == { <<"Ann", "Bob">>, <<"", "Bob">> }

Cells == 1..9

\* Orders in which the nine cells get filled.  With the players alternating:
\*  1: the first player completes 1-2-3 on the 5th move and 3-6-9 on the 9th,
\*     the second player never holds a line;
\*  2: a full board without a line;
\*  3: the 9th move completes both diagonals at once;
\*  4: the first player completes 1-2-3 on the 5th move, the second player
\*     4-5-6 on the 6th;
\*  5: the second player completes 2-5-8 on the 6th move.
Scripts ==
  << <<1, 4, 2, 5, 3, 7, 6, 8, 9>>,
     <<1, 2, 3, 5, 4, 6, 8, 7, 9>>,
     <<1, 2, 3, 4, 7, 6, 9, 8, 5>>,
     <<1, 4, 2, 5, 3, 6, 7, 8, 9>>,
     <<1, 2, 4, 5, 9, 8, 3, 6, 7>> >>

Positions == (1 - PosSlack)..(9 + PosSlack)

VARIABLES players, score, moves, turn, winner, last, scoreAtReset

vars == <<players, score, moves, turn, winner, last, scoreAtReset>>

\* ---- helpers of the OrderedDict self.moves -------------------------------
\* moves is the sequence of (position, player) items in insertion order.
Keys(m) == { m[i].pos : i \in 1..Len(m) }

\* moves.get(k, d)
Get(m, k, d) ==
  IF k \in Keys(m) THEN (CHOOSE it \in { m[i] : i \in 1..Len(m) } : it.pos = k).player
  ELSE d

\* bool(s) of a str
Truthy(s) == s # ""

\* bool(self.winner): None and '' are both falsy
TruthyWinner(w) == w # None /\ Truthy(w[1])

\* ---- State.set_move ------------------------------------------------------
\* set_move_check with range(0, 10) in place of range(1, 10)
set_move_check_from_zero(m, position) ==
  IF position \notin 0..9 THEN "IllegalMoveException"
  ELSE IF position \in Keys(m) THEN "DuplicateMoveException"
  ELSE ""

\* set_move_check without the elif of line 66
set_move_check_no_duplicate(m, position) ==
  IF position \notin 1..9 THEN "IllegalMoveException" ELSE ""

\* lines 64-67: the exception raised, "" when the move is accepted
set_move_check(m, position) ==
  IF position \notin 1..9 THEN "IllegalMoveException"
  ELSE IF position \in Keys(m) THEN "DuplicateMoveException"
  ELSE ""

\* toggle_turn with players[1] in both branches
toggle_turn_same_branch(ps, t) == IF t = ps[1] THEN ps[2] ELSE ps[2]

\* lines 69-72
toggle_turn(ps, t) == IF t = ps[1] THEN ps[2] ELSE ps[1]

\* set_move_result with the turn switched before the position is validated
set_move_result_toggle_first(ps, m, t, position) ==
  LET exc == set_move_check(m, position) IN
  IF exc # "" THEN [exc |-> exc, moves |-> m, turn |-> toggle_turn(ps, t)]
  ELSE [exc |-> "",
        moves |-> Append(m, [pos |-> position, player |-> t]),
        turn |-> toggle_turn(ps, t)]

\* lines 58-72: the moves and turn the call leaves behind, and its exception
set_move_result(ps, m, t, position) ==
  LET exc == set_move_check(m, position) IN
  IF exc # "" THEN [exc |-> exc, moves |-> m, turn |-> t]
  ELSE [exc |-> "",
        moves |-> Append(m, [pos |-> position, player |-> t]),
        turn |-> toggle_turn(ps, t)]

\* ---- State.finished ------------------------------------------------------
\* win_lines with the column 3-6-9 typed as the diagonal 3-5-7
win_lines_diagonal_twice ==
  << <<1, 2, 3>>, <<4, 5, 6>>, <<7, 8, 9>>,
     <<1, 4, 7>>, <<2, 5, 8>>, <<3, 5, 7>>,
     <<1, 5, 9>>, <<7, 5, 3>> >>

win_lines ==
  << <<1, 2, 3>>, <<4, 5, 6>>, <<7, 8, 9>>,
     <<1, 4, 7>>, <<2, 5, 8>>, <<3, 6, 9>>,
     <<1, 5, 9>>, <<7, 5, 3>> >>

\* line_matches without the comparison with the third cell
line_matches_two_cells(m, win_line) ==
  /\ Truthy(Get(m, win_line[1], ""))
  /\ Get(m, win_line[1], "") = Get(m, win_line[2], "")

\* lines 91-98: the condition of the if inside the loop
line_matches(m, win_line) ==
  /\ Truthy(Get(m, win_line[1], ""))
  /\ Get(m, win_line[1], "") = Get(m, win_line[2], "")
  /\ Get(m, win_line[2], "") = Get(m, win_line[3], "")

\* lines 99-100: the body of the if, on the pair (winner, score)
record_win(m, ws) ==
  LET w == m[Len(m)].player IN
  [winner |-> <<w>>, score |-> [ws.score EXCEPT ![w] = @ + 1]]

\* lines 90-100: the for loop from win_lines[i] on
RECURSIVE scan_lines(_, _, _)
scan_lines(m, ws, i) ==
  IF i > Len(win_lines) THEN ws
  ELSE IF line_matches(m, win_lines[i]) THEN scan_lines(m, record_win(m, ws), i + 1)
  ELSE scan_lines(m, ws, i + 1)

\* finished_return without the len(self.moves) == 9 test
finished_return_winner_only(m, w) == TruthyWinner(w)

\* lines 101-103
finished_return(m, w) == TruthyWinner(w) \/ Len(m) = 9

\* lines 74-103
finished_result(m, w, s) ==
  LET ws == scan_lines(m, [winner |-> w, score |-> s], 1) IN
  [ret |-> finished_return(m, ws.winner), winner |-> ws.winner, score |-> ws.score]

\* ---- State.compile_board and State.move_replay ---------------------------
\* tokens with the two marks swapped
tokens_swapped(ps, k) ==
  IF k = ps[2] THEN "X" ELSE IF k = ps[1] THEN "O" ELSE " "

\* self.tokens
tokens(ps, k) ==
  IF k = ps[2] THEN "O" ELSE IF k = ps[1] THEN "X" ELSE " "

\* lines 126-129: the tokens of cells lo..hi
board_line(ps, m, lo, hi) == [ j \in 1..(hi - lo + 1) |-> tokens(ps, Get(m, lo + j - 1, " ")) ]

\* lines 114-134; arg is None (no argument) or <<subset>>
compile_board(ps, selfMoves, arg) ==
  LET m == IF arg = None \/ arg[1] = <<>> THEN selfMoves ELSE arg[1] IN
  << board_line(ps, m, 1, 3), board_line(ps, m, 4, 6), board_line(ps, m, 7, 9), <<>> >>

\* move_replay_boards compiling self.moves instead of current_moves
move_replay_boards_all_moves(ps, selfMoves) ==
  [ k \in 1..Len(selfMoves) |-> compile_board(ps, selfMoves, <<selfMoves>>) ]

\* lines 142-145: the boards the generator yields, in order
move_replay_boards(ps, selfMoves) ==
  [ k \in 1..Len(selfMoves) |-> compile_board(ps, selfMoves, <<SubSeq(selfMoves, 1, k)>>) ]

\* ---- the record of the last call -----------------------------------------
NoBoards == <<>>

Call(op, arg, exc, ret, boards) ==
  [op |-> op, arg |-> arg, exc |-> exc, ret |-> ret, boards |-> boards]

\* ---- State.__init__ (lines 31-48) ----------------------------------------
Init ==
  /\ players \in NamePairs
  /\ score = [ n \in {players[1], players[2]} |-> 0 ]
  /\ moves = <<>>
  /\ winner = None
  /\ turn \in {players[1], players[2]}
  /\ last = Call("init", 0, "", FALSE, NoBoards)
  /\ scoreAtReset = score

\* ---- actions -------------------------------------------------------------
FreeCells == Cells \ Keys(moves)

\* the cells filled so far, in play order
Played == [ i \in 1..Len(moves) |-> moves[i].pos ]

\* the free cells a caller may choose
Offered ==
  { c \in FreeCells :
      \E k \in 1..NumScripts :
        /\ k <= Len(Scripts)
        /\ SubSeq(Scripts[k], 1, Len(moves)) = Played
        /\ Scripts[k][Len(moves) + 1] = c }

set_move ==
  \E position \in (Positions \ FreeCells) \cup Offered :
    LET r == set_move_result(players, moves, turn, position) IN
    /\ moves' = r.moves
    /\ turn' = r.turn
    /\ last' = Call("set_move", position, r.exc, FALSE, NoBoards)
    /\ UNCHANGED <<players, score, winner, scoreAtReset>>

finished ==
  LET r == finished_result(moves, winner, score) IN
  /\ \A n \in DOMAIN r.score : r.score[n] <= MaxScore
  /\ winner' = r.winner
  /\ score' = r.score
  /\ last' = Call("finished", 0, "", r.ret, NoBoards)
  /\ UNCHANGED <<players, moves, turn, scoreAtReset>>

\* reset that also builds a fresh score map
reset_clearing_score ==
  /\ moves' = <<>>
  /\ turn' \in {players[1], players[2]}
  /\ winner' = None
  /\ score' = [ n \in DOMAIN score |-> 0 ]
  /\ last' = Call("reset", 0, "", FALSE, NoBoards)
  /\ scoreAtReset' = score'
  /\ UNCHANGED players

\* lines 50-56
reset ==
  /\ moves' = <<>>
  /\ turn' \in {players[1], players[2]}
  /\ winner' = None
  /\ last' = Call("reset", 0, "", FALSE, NoBoards)
  /\ scoreAtReset' = score
  /\ UNCHANGED <<players, score>>

move_replay ==
  /\ last' = Call("move_replay", 0, "", FALSE, move_replay_boards(players, moves))
  /\ UNCHANGED <<players, score, moves, turn, winner, scoreAtReset>>

\* compile_board() and compile_board(subset), the subset being empty or the
\* moves before the last one
compile_board_call ==
  \E arg \in {None} \cup { <<SubSeq(moves, 1, k)>> : k \in {0, Len(moves) - 1} \cap Nat } :
    /\ last' = Call("compile_board", IF arg = None THEN -1 ELSE Len(arg[1]), "", FALSE,
                    <<compile_board(players, moves, arg)>>)
    /\ UNCHANGED <<players, score, moves, turn, winner, scoreAtReset>>

Next == set_move \/ finished \/ reset \/ move_replay \/ compile_board_call

Spec == Init /\ [][Next]_vars

\* ---- NoughtsAndCrosses.play: the session loop ------------------------------
\* The position in play() is read off the last call:
\*   at the while test     after __init__, reset, set_move or a rejected input;
\*   at the move prompt    after finished() returned False;
\*   past the loop         after finished() returned True (or after the replay).
AtLoopTest == last.op \in {"init", "reset", "set_move", "input_error"}

AtPrompt == last.op = "finished" /\ last.ret = FALSE

RoundOver == last.op = "finished" /\ last.ret = TRUE

\* line 179: the while test
play_finished ==
  LET r == finished_result(moves, winner, score) IN
  /\ AtLoopTest
  /\ winner' = r.winner
  /\ score' = r.score
  /\ last' = Call("finished", 0, "", r.ret, NoBoards)
  /\ UNCHANGED <<players, moves, turn, scoreAtReset>>

\* lines 181-185 and the handlers of lines 188-197: a line that int() accepts
play_input ==
  \E position \in (Positions \ FreeCells) \cup Offered :
    LET r == set_move_result(players, moves, turn, position) IN
    /\ AtPrompt
    /\ moves' = r.moves
    /\ turn' = r.turn
    /\ last' = Call("set_move", position, r.exc, FALSE, NoBoards)
    /\ UNCHANGED <<players, score, winner, scoreAtReset>>

\* lines 183-192: int() raises ValueError, or the read is interrupted
play_bad_input ==
  /\ AtPrompt
  /\ last' = Call("input_error", 0, "ValueError", FALSE, NoBoards)
  /\ UNCHANGED <<players, score, moves, turn, winner, scoreAtReset>>

\* lines 198-202: the result is shown and the replay is asked for
play_replay ==
  /\ RoundOver
  /\ last' = Call("move_replay", 0, "", FALSE, move_replay_boards(players, moves))
  /\ UNCHANGED <<players, score, moves, turn, winner, scoreAtReset>>

\* lines 204-207: 'y' to the play-again question
play_again ==
  /\ RoundOver \/ last.op = "move_replay"
  /\ \A n \in DOMAIN score : score[n] < MaxScore
  /\ moves' = <<>>
  /\ turn' \in {players[1], players[2]}
  /\ winner' = None
  /\ last' = Call("reset", 0, "", FALSE, NoBoards)
  /\ scoreAtReset' = score
  /\ UNCHANGED <<players, score>>

\* lines 204-211: any other answer to the play-again question
play_quit ==
  /\ RoundOver \/ last.op = "move_replay"
  /\ last' = Call("quit", 0, "", FALSE, NoBoards)
  /\ UNCHANGED <<players, score, moves, turn, winner, scoreAtReset>>

LoopNext ==
  play_finished \/ play_input \/ play_bad_input \/ play_replay \/ play_again \/ play_quit

LoopSpec == Init /\ [][LoopNext]_vars

\* play() always goes on to its while test, and the players keep eventually
\* entering a free cell.
LoopSpecFair ==
  /\ LoopSpec
  /\ WF_vars(play_finished)
  /\ SF_vars(play_input /\ last'.exc = "")

\* ---- vocabulary of the properties ----------------------------------------
PlayerSet == {players[1], players[2]}

Other(n) == CHOOSE o \in PlayerSet : o # n

\* the player who filled cell c (c is filled)
OwnerOf(m, c) == m[CHOOSE i \in 1..Len(m) : m[i].pos = c].player

\* player n has filled all three cells of some winning line
HoldsLine(m, n) ==
  \E i \in 1..Len(win_lines) :
    \A j \in 1..3 : win_lines[i][j] \in Keys(m) /\ OwnerOf(m, win_lines[i][j]) = n

\* finished() finds a completed line on the board m
FindsLine(m) == \E i \in 1..Len(win_lines) : line_matches(m, win_lines[i])

LastMover == moves[Len(moves)].player

SetMoveOk == last.op = "set_move" /\ last.exc = ""

\* ---- C1 -------------------------------------------------------------------
\* C1: in a game in which a player completes a winning line, that player's
\* score is exactly 1 above its value at the start of the game, however often
\* finished() was called since.  Stated for the player who made the last move,
\* right after a finished() call, and for a non-empty name.
C1_ScoreRaisedByOne ==
  \A n \in PlayerSet :
    (last.op = "finished" /\ n # "" /\ HoldsLine(moves, n) /\ LastMover = n)
      => score[n] = scoreAtReset[n] + 1

\* ---- C2 -------------------------------------------------------------------
\* C2: whenever finished() finds a completed line, the winner it records is a
\* player whose marks fill a line, also when moves were made after the line
\* was completed.
C2_WinnerOwnsLine ==
  (last.op = "finished" /\ FindsLine(moves))
    => (winner # None /\ HoldsLine(moves, winner[1]))

\* ---- C3 -------------------------------------------------------------------
\* C3: a successful set_move hands the turn to the other player and records
\* the move for the player whose turn it was, so the moves of a game alternate
\* strictly between the players, the first one being made by the player whose
\* turn it was after the reset.
C3_TurnAlternates ==
  [][ (last'.op = "set_move" /\ last'.exc = "")
        => /\ turn' = Other(turn)
           /\ Len(moves') = Len(moves) + 1
           /\ moves'[Len(moves')].player = turn
           /\ \A i \in 1..Len(moves') :
                moves'[i].player = IF (Len(moves') - i) % 2 = 0 THEN turn ELSE turn' ]_vars

C3_Witness == SetMoveOk /\ Len(moves) >= 4

\* ---- C4 -------------------------------------------------------------------
\* C4: set_move with a position outside 1..9 fails with IllegalMoveException,
\* never with DuplicateMoveException, in every state.
C4_OutOfRangeIsIllegal ==
  (last.op = "set_move" /\ last.arg \notin 1..9) => last.exc = "IllegalMoveException"

C4_Witness ==
  /\ last.op = "set_move" /\ last.arg \notin 1..9
  /\ last.exc = "IllegalMoveException" /\ Len(moves) >= 2

\* ---- C5 -------------------------------------------------------------------
\* C5: set_move on a cell of 1..9 that is already filled fails with
\* DuplicateMoveException and the cell keeps the player who filled it first.
C5_FilledCellIsDuplicate ==
  [][ (last'.op = "set_move" /\ last'.arg \in Keys(moves))
        => /\ last'.exc = "DuplicateMoveException"
           /\ last'.arg \in Keys(moves')
           /\ OwnerOf(moves', last'.arg) = OwnerOf(moves, last'.arg)
           /\ Len(moves') = Len(moves) ]_vars

C5_Witness ==
  /\ last.op = "set_move" /\ last.exc = "DuplicateMoveException"
  /\ last.arg \in Keys(moves) /\ OwnerOf(moves, last.arg) = turn

\* ---- C6 -------------------------------------------------------------------
\* C6: a failing set_move leaves the board, the turn, the winner and both
\* scores unchanged (the same player is to move and the game goes on).
C6_FailedMoveChangesNothing ==
  [][ (last'.op = "set_move" /\ last'.exc # "")
        => moves' = moves /\ turn' = turn /\ winner' = winner /\ score' = score ]_vars

C6_Witness ==
  /\ last.op = "set_move" /\ last.exc # ""
  /\ Len(moves) \in 1..8 /\ winner = None

\* ---- C7 -------------------------------------------------------------------
\* C7: on a full board on which no player holds a line, finished() returns
\* true, the winner is empty and no score has changed since the game began,
\* however often finished() was called.
FullNoLine == Len(moves) = 9 /\ \A n \in PlayerSet : ~HoldsLine(moves, n)

C7_DrawHasNoWinner ==
  FullNoLine => /\ winner = None
                /\ score = scoreAtReset
                /\ (last.op = "finished" => last.ret = TRUE)

C7_Witness == FullNoLine /\ last.op = "finished"

\* ---- C8 -------------------------------------------------------------------
\* C8: finished() returns true exactly when, after the call, a winner is
\* recorded or all 9 cells are filled.
C8_FinishedIffWinnerOrFull ==
  last.op = "finished" => (last.ret = TRUE <=> (winner # None \/ Len(moves) = 9))

\* ---- C9 -------------------------------------------------------------------
\* C9: reset() empties the board and the winner, leaves both scores as they
\* were and sets the turn to one of the two players.
C9_ResetKeepsScore ==
  [][ last'.op = "reset"
        => /\ moves' = <<>> /\ winner' = None
           /\ score' = score
           /\ turn' \in PlayerSet ]_vars

C9_Witness ==
  /\ last.op = "reset" /\ moves = <<>> /\ winner = None
  /\ \E n \in PlayerSet : score[n] > 0

\* ---- C10 ------------------------------------------------------------------
\* the token the grid shows for cell c
CellToken(board, c) == board[((c - 1) \div 3) + 1][((c - 1) % 3) + 1]

\* the cells a grid shows as filled
FilledCells(board) == { c \in Cells : CellToken(board, c) # " " }

\* the grid shows the first k moves and nothing else
ShowsFirst(board, k) ==
  \A c \in Cells :
    CellToken(board, c) =
      IF c \in Keys(SubSeq(moves, 1, k))
      THEN (IF OwnerOf(moves, c) = players[1] THEN "X" ELSE "O")
      ELSE " "

\* C10: move_replay() yields one snapshot per move; the k-th shows exactly the
\* first k moves, so each snapshot's filled cells strictly include the previous
\* one's; the last snapshot equals compile_board().
C10_ReplayShowsPrefixes ==
  last.op = "move_replay"
    => /\ Len(last.boards) = Len(moves)
       /\ \A k \in 1..Len(last.boards) : ShowsFirst(last.boards[k], k)
       /\ \A k \in 2..Len(last.boards) :
            /\ FilledCells(last.boards[k - 1]) \subseteq FilledCells(last.boards[k])
            /\ FilledCells(last.boards[k - 1]) # FilledCells(last.boards[k])
       /\ Len(moves) > 0 => last.boards[Len(moves)] = compile_board(players, moves, None)

C10_Witness == last.op = "move_replay" /\ Len(last.boards) >= 5

\* ---- C11 ------------------------------------------------------------------
\* C11: compile_board returns exactly 3 rows of exactly 3 tokens each, with
\* and without a move subset.
C11_ThreeByThree ==
  last.op = "compile_board"
    => /\ Len(last.boards[1]) = 3
       /\ \A r \in 1..Len(last.boards[1]) : Len(last.boards[1][r]) = 3

\* ---- C12 ------------------------------------------------------------------
\* C12: compile_board() shows, at row (i-1) div 3 and column (i-1) mod 3, 'X'
\* for a cell of player 1, 'O' for a cell of player 2 and the empty token for
\* a free cell, whoever moved first; after reset() all nine cells are empty.
C12_TokensByOwner ==
  (last.op = "compile_board" /\ last.arg = -1)
    => /\ ShowsFirst(last.boards[1], Len(moves))
       /\ moves = <<>> => \A c \in Cells : CellToken(last.boards[1], c) = " "

C12_Witness ==
  /\ last.op = "compile_board" /\ last.arg = -1
  /\ Len(moves) >= 3 /\ moves[1].player = players[2]

\* ---- C13 ------------------------------------------------------------------
\* the winning lines (by index in win_lines) all of whose cells one player holds
LinesHeld(m) ==
  { i \in 1..Len(win_lines) :
      /\ \A j \in 1..3 : win_lines[i][j] \in Keys(m)
      /\ OwnerOf(m, win_lines[i][1]) = OwnerOf(m, win_lines[i][2])
      /\ OwnerOf(m, win_lines[i][2]) = OwnerOf(m, win_lines[i][3]) }

\* the board before the last move
BeforeLastMove == SubSeq(moves, 1, Len(moves) - 1)

\* the last move was made in normal play: no line was complete before it
NormalPlay == Len(moves) > 0 /\ LinesHeld(BeforeLastMove) = {}

\* C13 as stated: in normal play no move completes more than one winning line.
C13_AtMostOneLinePerMove == NormalPlay => Cardinality(LinesHeld(moves)) <= 1

\* C13 amended: in normal play no move completes more than two winning lines
\* (two are completed by a 9th move on the centre that closes both diagonals).
C13_AtMostTwoLinesPerMove == NormalPlay => Cardinality(LinesHeld(moves)) <= 2

C13_Witness == NormalPlay /\ Cardinality(LinesHeld(moves)) = 2

\* ---- C15 ------------------------------------------------------------------
\* C15: once finished() has returned true (here: with a winner recorded), a
\* set_move call before the next reset() adds no move and leaves the turn.
C15_NoMoveAfterFinished ==
  [][ (TruthyWinner(winner) /\ last'.op = "set_move")
        => (moves' = moves /\ turn' = turn) ]_vars

\* ---- C16 ------------------------------------------------------------------
\* C16: a score changes only in finished() and only when the board holds a
\* completed line; set_move, reset() and finished() on a board without a
\* completed line change no score.
C16_ScoreChangesOnlyOnLine ==
  [][ score' # score
        => /\ last'.op = "finished"
           /\ moves' = moves
           /\ \E n \in PlayerSet : HoldsLine(moves, n) ]_vars

C16_Witness ==
  /\ last.op = "finished" /\ score # scoreAtReset
  /\ \E n \in PlayerSet : HoldsLine(moves, n)

\* ---- C17 ------------------------------------------------------------------
\* C17: the board holds at most 9 filled cells, all in 1..9, each filled once;
\* a successful set_move adds exactly one cell and keeps the earlier ones with
\* their owners, reset() empties the board and nothing else changes it, so the
\* number of filled cells is the number of successful set_move calls since the
\* last reset().
C17_BoardGrowsByMoves ==
  [][ /\ Len(moves') <= 9
      /\ Keys(moves') \subseteq 1..9
      /\ Cardinality(Keys(moves')) = Len(moves')
      /\ IF last'.op = "reset" THEN moves' = <<>>
         ELSE IF last'.op = "set_move" /\ last'.exc = ""
              THEN /\ Len(moves') = Len(moves) + 1
                   /\ SubSeq(moves', 1, Len(moves)) = moves
              ELSE moves' = moves ]_vars

C17_Witness == SetMoveOk /\ Len(moves) = 9 /\ Cardinality(Keys(moves)) = 9

\* ---- C18 ------------------------------------------------------------------
\* C18: compile_board(subset) shows exactly the cells of the subset and every
\* other cell as empty, also for the empty subset of a board with filled cells.
C18_SubsetRendered ==
  (last.op = "compile_board" /\ last.arg >= 0) => ShowsFirst(last.boards[1], last.arg)

\* ---- C19 ------------------------------------------------------------------
\* C19: whatever the two names, the empty string included, a line completed by
\* a player makes finished() return true with that player recorded as winner.
\* Stated for the player who made the last move.
C19_WinWithAnyName ==
  (last.op = "finished" /\ Len(moves) > 0 /\ HoldsLine(moves, LastMover))
    => (last.ret = TRUE /\ winner = <<LastMover>>)

\* ---- C14 ------------------------------------------------------------------
\* C14: a round of the session loop that ends with a winner has raised that
\* winner's score by exactly 1 and left the other player's score unchanged.
C14_RoundRaisesWinnerByOne ==
  (RoundOver /\ TruthyWinner(winner))
    => /\ score[winner[1]] = scoreAtReset[winner[1]] + 1
       /\ score[Other(winner[1])] = scoreAtReset[Other(winner[1])]

\* ---- C20 ------------------------------------------------------------------
\* C20: a round of the session loop takes at most 9 successful moves, and when
\* the players keep eventually entering a free cell every round that starts
\* reaches a finished() call that returns true.
C20_RoundEnds ==
  /\ [](Len(moves) <= 9)
  /\ (last.op \in {"init", "reset"}) ~> RoundOver

C20_Witness ==
  /\ RoundOver /\ Len(moves) = 9 /\ winner = None
  /\ \E n \in PlayerSet : scoreAtReset[n] > 0

====
